---- MODULE Spec2Model ----
(***************************************************************************)
(* Conversation orchestration of the chat / agent demo: the Message table, *)
(* the plain chat router (chatRouter.sendChat) and the agent router        *)
(* (agentRouter.chat), getMessages and clearMessages.                      *)
(*                                                                         *)
(* A string is modelled by a label and a length, [tag, len]: the code only *)
(* compares strings, concatenates them and measures their length.          *)
(* The Message table is a set of rows.  An INSERT is two steps: the        *)
(* statement is issued (createdAt = now() is the start time of the         *)
(* inserting transaction) and later the row is formed (the identity column *)
(* draws the next value of its sequence).  A SELECT ... ORDER BY createdAt *)
(* returns the rows in any order that respects createdAt: rows with equal  *)
(* createdAt come in an order the query does not fix.                      *)
(***************************************************************************)
EXTENDS Integers, Sequences, FiniteSets, TLC

VARIABLES
    store,        \* the Message table: a set of rows
    nextId,       \* next value of the identity sequence of Message.id
    now,          \* the database clock
    pc,           \* pc[p]: where invocation p of chat / sendChat stands
    mode,         \* mode[p]: "plain" (chatRouter.sendChat) or "agent" (agentRouter.chat)
    message,      \* message[p]: input.message / input.content
    character,    \* character[p]: the persona key the request carried (sendChat)
    ts,           \* ts[p]: start time of p's INSERT in flight (its now())
    userMessage,  \* userMessage[p]: the row returned by the first insert
    history,      \* history[p]: the rows loaded for the context window
    result,       \* result[p]: what the model / agent call returned
    response,     \* response[p]: what the procedure returned to its caller
    messages,     \* the result of the last getMessages query
    users,        \* the User table: a set of rows
    posts,        \* the Post table: a set of rows
    nextUserId,   \* next value of the identity sequence of User.id
    nextPostId,   \* next value of the identity sequence of Post.id
    output,       \* the last call of an Entity Store procedure or tool
    input,        \* ChatPage: the text in the textarea
    isLoading,    \* ChatPage: the isLoading flag
    sendMessage,  \* ChatPage: where the send mutation stands
    sends         \* ChatPage: send requests started and not yet answered

vars == <<store, nextId, now, pc, mode, message, character, ts, userMessage, history,
          result, response, messages, users, posts, nextUserId, nextPostId, output,
          input, isLoading, sendMessage, sends>>

procVars == <<pc, mode, message, character, ts, userMessage, history, result, response>>

\* the Message table and its clock
chatVars == <<store, nextId, now, messages>>

\* the Entity Store
entityVars == <<users, posts, nextUserId, nextPostId, output>>

\* the state of the chat page
pageVars == <<input, isLoading, sendMessage, sends>>

-----------------------------------------------------------------------------
(* Bounds *)

\* rows the identity sequence may hand out in one behaviour
MaxId == 4

\* identity values of a conversation longer than the context window
LongId == 12

\* concurrent invocations of the chat procedures
Procs == {"p1", "p2"}

\* rows the identity sequences of User and Post may hand out
MaxUsers == 2
MaxPosts == 2

\* rows of Post in the specification of a long list of posts
LongPosts == 101

-----------------------------------------------------------------------------
(* Program constants *)

MinContentLen == 1
MaxContentLen == 10000
HistoryLimit == 10

\* CreateUserSchema, CreatePostSchema
MaxNameLen == 255
MaxEmailLen == 255
MaxBioLen == 1000
MaxTitleLen == 500

\* postRouter.list
DefaultLimit == 50
MaxLimit == 100

-----------------------------------------------------------------------------
(* Values *)

None == [some |-> FALSE]
Some(v) == [some |-> TRUE, val |-> v]

Str(tag, len) == [tag |-> tag, len |-> len]
EmptyStr == Str("", 0)
StrLen(s) == s.len

\* a + b on strings
Cat(a, b) ==
    IF a.len = 0 THEN b
    ELSE IF b.len = 0 THEN a
    ELSE Str(a.tag \o b.tag, a.len + b.len)

\* JavaScript truthiness of a string
Truthy(s) == s.len > 0

EmptyObject == << >>

Max(a, b) == IF a >= b THEN a ELSE b
Min(a, b) == IF a <= b THEN a ELSE b

RECURSIVE Reverse(_)
Reverse(s) == IF s = << >> THEN << >> ELSE Reverse(Tail(s)) \o <<Head(s)>>

Last(s) == s[Len(s)]

\* an email string: its label, its length, and whether it has the form of
\* an email address (what z.string().email() tests)
Email(tag, len, wellFormed) == [tag |-> tag, len |-> len, wellFormed |-> wellFormed]
IsEmail(e) == e.wellFormed

-----------------------------------------------------------------------------
(* Inputs *)

\* request messages: empty, shortest, longest accepted, one too long
Hello == Str("Hello", 5)
Messages == {EmptyStr, Str("h", MinContentLen), Hello,
             Str("L", MaxContentLen), Str("X", MaxContentLen + 1)}

\* persona keys a client may send; None is an omitted key
Characters == {None, Some("default"), Some("luffy"), Some("ironman"),
               Some("goku"), Some("naruto")}

Modes == {"plain", "agent"}

\* texts generateText may return
Texts == {EmptyStr, Str("Hi there", 8), Str("T", MaxContentLen + 1)}

StrContent(s) == [kind |-> "string", s |-> s]
PartsContent(parts) == [kind |-> "array", parts |-> parts]
OtherContent == [kind |-> "other"]
StrPart(s) == [kind |-> "string", s |-> s]
ObjPart(text) == [kind |-> "object", text |-> text]

NoToolCalls == [present |-> FALSE, calls |-> << >>]
ToolCalls(calls) == [present |-> TRUE, calls |-> calls]
ToolCall(name, args) == [name |-> name, args |-> args]

AIMsg(content, tool_calls) == [type |-> "ai", content |-> content, tool_calls |-> tool_calls]
ToolMsg(s, status) ==
    [type |-> "tool", content |-> StrContent(s), tool_calls |-> NoToolCalls, status |-> status]

AdaArgs == [name |-> "Ada", email |-> "ada@example.com"]
CreatedAda == Str("Successfully created user: Ada (ID: 1)", 39)

\* result.messages of agent.invoke
AgentResults ==
    { \* a plain answer
      << AIMsg(StrContent(Str("Hi there", 8)), ToolCalls(<< >>)) >>,
      \* an empty answer
      << AIMsg(StrContent(EmptyStr), ToolCalls(<< >>)) >>,
      \* no message at all
      << >>,
      \* one tool call, its result, the final answer
      << AIMsg(StrContent(EmptyStr), ToolCalls(<<ToolCall(Some("create_user"), AdaArgs)>>)),
         ToolMsg(CreatedAda, "success"),
         AIMsg(StrContent(CreatedAda), ToolCalls(<< >>)) >>,
      \* two messages with tool calls, one call unnamed, one tool failed;
      \* the answer is a list of parts
      << AIMsg(StrContent(EmptyStr),
               ToolCalls(<<ToolCall(Some("count_users"), EmptyObject), ToolCall(None, EmptyObject)>>)),
         ToolMsg(Str("Total users in database: 0", 26), "success"),
         ToolMsg(Str("Error: unknown tool", 19), "error"),
         AIMsg(StrContent(EmptyStr), ToolCalls(<<ToolCall(Some(""), AdaArgs)>>)),
         ToolMsg(Str("Error: unknown tool", 19), "error"),
         AIMsg(PartsContent(<<StrPart(Str("a", 1)), ObjPart(Some(Str("b", 1))), ObjPart(None)>>),
               NoToolCalls) >>,
      \* the last message has neither a string nor a list as content
      << AIMsg(OtherContent, NoToolCalls) >>,
      \* a list of parts without text
      << AIMsg(PartsContent(<<ObjPart(None), ObjPart(Some(EmptyStr))>>), ToolCalls(<< >>)) >>
    }

\* the inputs of the concurrent specification: one of each kind
LeanMessages == {EmptyStr, Hello}
LeanCharacters == {None, Some("naruto")}
LeanTexts == {EmptyStr, Str("Hi there", 8)}
LeanAgentResults ==
    { << AIMsg(StrContent(EmptyStr), ToolCalls(<<ToolCall(Some("create_user"), AdaArgs)>>)),
         ToolMsg(CreatedAda, "success"),
         AIMsg(StrContent(CreatedAda), ToolCalls(<< >>)) >> }


\* inputs of the Entity Store procedures and of the tools
Ada == Str("Ada", 3)
AdaEmail == Email("ada@example.com", 15, TRUE)
BobEmail == Email("bob@example.com", 15, TRUE)

UserInput(name, email, bio) == [name |-> name, email |-> email, bio |-> bio]

UserInputs ==
    { UserInput(Ada, AdaEmail, None),
      \* the longest name and the longest bio
      UserInput(Str("N", MaxNameLen), BobEmail, Some(Str("B", MaxBioLen))),
      \* Ada's email once more
      UserInput(Str("Eve", 3), AdaEmail, None),
      \* no name; a name too long
      UserInput(EmptyStr, BobEmail, None),
      UserInput(Str("N", MaxNameLen + 1), BobEmail, None),
      \* not an email; an email too long; a bio too long
      UserInput(Ada, Email("ada.example.com", 15, FALSE), None),
      UserInput(Ada, Email("long@example.com", MaxEmailLen + 1, TRUE), None),
      UserInput(Ada, BobEmail, Some(Str("B", MaxBioLen + 1))) }

UserData(name, email, bio) == [name |-> name, email |-> email, bio |-> bio]

UserDatas ==
    { UserData(None, Some(AdaEmail), None),
      UserData(Some(EmptyStr), None, None) }

PostInput(userId, title, content, published) ==
    [userId |-> userId, title |-> title, content |-> content, published |-> published]

Title == Str("First post", 10)
Body == Str("Some text", 9)

PostInputs ==
    { \* the longest title
      PostInput(1, Str("T", MaxTitleLen), Body, None),
      PostInput(2, Title, Str("C", 150), Some(TRUE)),
      \* a user that does not exist; not an id
      PostInput(9, Title, Body, None),
      PostInput(0, Title, Body, None),
      \* no title; a title too long; no content
      PostInput(1, EmptyStr, Body, None),
      PostInput(1, Str("T", MaxTitleLen + 1), Body, None),
      PostInput(1, Title, EmptyStr, None) }

PostData(userId, title, content, published) ==
    [userId |-> userId, title |-> title, content |-> content, published |-> published]

PostDatas ==
    { PostData(Some(2), None, None, None),
      PostData(Some(9), Some(Title), None, None),
      PostData(None, Some(EmptyStr), None, None) }

EntityIds == {0, 1, 2, 9}

ListInput(limit) == Some([limit |-> limit])
ListInputs ==
    { None, ListInput(None), ListInput(Some(0)), ListInput(Some(1)),
      ListInput(Some(MaxLimit)), ListInput(Some(MaxLimit + 1)) }

\* the time a statement takes on the database clock
Durations == {0, 1}

-----------------------------------------------------------------------------
(* Input validation *)

\* the upper bound taken as exclusive
ValidMessageExclusiveMax(m) == StrLen(m) >= MinContentLen /\ StrLen(m) < MaxContentLen

\* z.string().min(1).max(10000)
ValidMessage(m) == StrLen(m) >= MinContentLen /\ StrLen(m) <= MaxContentLen

\* z.enum(["default", "luffy", "ironman", "goku"]).optional().default("default")
ValidCharacter(c) ==
    IF c.some THEN c.val \in {"default", "luffy", "ironman", "goku"} ELSE TRUE

\* the input schema of the procedure: agentRouter.chat takes {message} only
\* (other keys are stripped), chatRouter.sendChat takes {content, character}
ValidInput(md, m, c) ==
    IF md = "plain" THEN ValidMessage(m) /\ ValidCharacter(c)
    ELSE ValidMessage(m)

\* the persona key the schema reads: agentRouter.chat's schema has none
InputCharacter(md, c) == IF md = "plain" THEN c ELSE None

-----------------------------------------------------------------------------
(* The Message table *)

\* a row numbered by the count of rows instead of the identity sequence
NewRowNumberedByCount(id, role, content, t) ==
    [id |-> Cardinality(store) + 1, role |-> role, content |-> content, createdAt |-> t]

\* the row an INSERT forms: id from the identity sequence, createdAt = now()
NewRow(id, role, content, t) ==
    [id |-> id, role |-> role, content |-> content, createdAt |-> t]

\* the sequences that hold every row of s once, createdAt ascending
RECURSIVE AscOrders(_)
AscOrders(s) ==
    IF s = {} THEN { << >> }
    ELSE LET firsts == {r \in s : \A q \in s : r.createdAt <= q.createdAt}
         IN  UNION { { <<r>> \o t : t \in AscOrders(s \ {r}) } : r \in firsts }

\* the sequences that hold every row of s once, createdAt descending
RECURSIVE DescOrders(_)
DescOrders(s) ==
    IF s = {} THEN { << >> }
    ELSE LET firsts == {r \in s : \A q \in s : r.createdAt >= q.createdAt}
         IN  UNION { { <<r>> \o t : t \in DescOrders(s \ {r}) } : r \in firsts }

\* the first n rows, oldest first
Oldest(s, n) == { SubSeq(o, 1, Min(n, Len(o))) : o \in AscOrders(s) }

\* select().from(Message).orderBy(desc(Message.createdAt)).limit(n)
Recent(s, n) == { SubSeq(o, 1, Min(n, Len(o))) : o \in DescOrders(s) }

\* select().from(Message).orderBy(Message.createdAt)
All(s) == AscOrders(s)

\* a delete that spares the row inserted last
ClearedButLast(s) == {r \in s : \A q \in s : q.id <= r.id}

\* delete(Message): what is left of the table
Cleared(s) == {}

-----------------------------------------------------------------------------
(* Reading the agent's result *)

\* (c as {text?: string}).text || ""  /  c itself when it is a string
PartText(c) ==
    IF c.kind = "string" THEN c.s
    ELSE IF c.text.some
         THEN (IF Truthy(c.text.val) THEN c.text.val ELSE EmptyStr)
    ELSE EmptyStr

RECURSIVE JoinParts(_)
JoinParts(parts) ==
    IF parts = << >> THEN EmptyStr
    ELSE Cat(PartText(Head(parts)), JoinParts(Tail(parts)))

\* the text taken from the first result message
aiResponseOfFirst(msgs) ==
    IF msgs = << >> THEN EmptyStr
    ELSE IF Head(msgs).content.kind = "string" THEN Head(msgs).content.s
    ELSE EmptyStr

\* aiResponse: the text of the last result message
aiResponse(msgs) ==
    IF msgs = << >> THEN EmptyStr
    ELSE LET lastMessage == Last(msgs)
         IN  IF lastMessage.content.kind = "string" THEN lastMessage.content.s
             ELSE IF lastMessage.content.kind = "array"
                  THEN JoinParts(lastMessage.content.parts)
             ELSE EmptyStr

\* an entry that reports an unnamed call as failed
TraceEntryFailingUnnamed(toolCall, t) ==
    [toolName |-> IF toolCall.name.some
                  THEN (IF toolCall.name.val # "" THEN toolCall.name.val ELSE "unknown")
                  ELSE "unknown",
     input |-> toolCall.args,
     output |-> EmptyObject,
     timestamp |-> t,
     success |-> toolCall.name.some]

\* one entry of the trace
TraceEntry(toolCall, t) ==
    [toolName |-> IF toolCall.name.some
                  THEN (IF toolCall.name.val # "" THEN toolCall.name.val ELSE "unknown")
                  ELSE "unknown",
     input |-> toolCall.args,
     output |-> EmptyObject,
     timestamp |-> t,
     success |-> TRUE]

RECURSIVE MsgTrace(_, _)
MsgTrace(calls, t) ==
    IF calls = << >> THEN << >>
    ELSE <<TraceEntry(Head(calls), t)>> \o MsgTrace(Tail(calls), t)

\* toolCalls: the tool calls of every result message, in message order
RECURSIVE ExtractToolCalls(_, _)
ExtractToolCalls(msgs, t) ==
    IF msgs = << >> THEN << >>
    ELSE (IF Head(msgs).tool_calls.present
          THEN MsgTrace(Head(msgs).tool_calls.calls, t) ELSE << >>)
         \o ExtractToolCalls(Tail(msgs), t)

\* the list returned as it is, empty or not
ToolCallsFieldAlways(toolCalls) == Some(toolCalls)

\* toolCalls.length > 0 ? toolCalls : undefined
ToolCallsField(toolCalls) == IF Len(toolCalls) > 0 THEN Some(toolCalls) ELSE None

\* the text the assistant row gets
AssistantText(md, res) == IF md = "plain" THEN res.text ELSE aiResponse(res.messages)

\* what the procedure returns
ChatResponse(md, u, a, res, t) ==
    IF md = "plain"
    THEN [status |-> "ok", userMessage |-> u, assistantMessage |-> a]
    ELSE [status |-> "ok", userMessage |-> u, assistantMessage |-> a,
          toolCalls |-> ToolCallsField(ExtractToolCalls(res.messages, t))]

-----------------------------------------------------------------------------
(* State *)

NoRow == [id |-> 0]
NoResult == [kind |-> "none"]
NoResponse == [status |-> "none"]
NoOutput == [call |-> "none"]

Init ==
    /\ store = {}
    /\ nextId = 1
    /\ now = 0
    /\ pc = [p \in Procs |-> "idle"]
    /\ mode = [p \in Procs |-> "plain"]
    /\ message = [p \in Procs |-> EmptyStr]
    /\ character = [p \in Procs |-> None]
    /\ ts = [p \in Procs |-> 0]
    /\ userMessage = [p \in Procs |-> NoRow]
    /\ history = [p \in Procs |-> << >>]
    /\ result = [p \in Procs |-> NoResult]
    /\ response = [p \in Procs |-> NoResponse]
    /\ messages = << >>
    /\ users = {}
    /\ posts = {}
    /\ nextUserId = 1
    /\ nextPostId = 1
    /\ output = NoOutput
    /\ input = << >>
    /\ isLoading = FALSE
    /\ sendMessage = "idle"
    /\ sends = 0

\* inserts invocation q still has to make
Pending(q) ==
    IF pc[q] = "insertUser" THEN 2
    ELSE IF pc[q] \in {"load", "invoke", "insertAssistant"} THEN 1
    ELSE 0

RECURSIVE SumPending(_)
SumPending(ps) ==
    IF ps = {} THEN 0
    ELSE LET q == CHOOSE x \in ps : TRUE IN Pending(q) + SumPending(ps \ {q})

\* an identity sequence of max values has two left for a new invocation
Budget(max) == nextId - 1 + SumPending(Procs) + 2 <= max

HasBudget == Budget(MaxId)

-----------------------------------------------------------------------------
(* chatRouter.sendChat / agentRouter.chat *)

\* The input fails validation: the procedure body never runs.
ChatRejected(p, Mds, Ms, Cs) ==
    /\ pc[p] = "idle"
    /\ \E md \in Mds, m \in Ms, c \in Cs :
          /\ ~ValidInput(md, m, c)
          /\ mode' = [mode EXCEPT ![p] = md]
          /\ message' = [message EXCEPT ![p] = m]
          /\ character' = [character EXCEPT ![p] = InputCharacter(md, c)]
    /\ pc' = [pc EXCEPT ![p] = "rejected"]
    /\ response' = [response EXCEPT ![p] = [status |-> "ValidationError"]]
    /\ UNCHANGED <<store, nextId, now, ts, userMessage, history, result,
                   messages>>
    /\ UNCHANGED <<entityVars, pageVars>>

\* The input is valid: the body starts and issues the INSERT of the user row.
ChatStarts(p, Mds, Ms, Cs) ==
    /\ pc[p] = "idle"
    /\ \E md \in Mds, m \in Ms, c \in Cs :
          /\ ValidInput(md, m, c)
          /\ mode' = [mode EXCEPT ![p] = md]
          /\ message' = [message EXCEPT ![p] = m]
          /\ character' = [character EXCEPT ![p] = InputCharacter(md, c)]
    /\ ts' = [ts EXCEPT ![p] = now]
    /\ pc' = [pc EXCEPT ![p] = "insertUser"]
    /\ UNCHANGED <<store, nextId, now, userMessage, history, result, response,
                   messages>>
    /\ UNCHANGED <<entityVars, pageVars>>

ChatCall(p, Mds, Ms, Cs) ==
    /\ HasBudget
    /\ ChatStarts(p, Mds, Ms, Cs)

\* 1. Save user message to database: the row is formed and returned.  The
\* statement took time: when it returns the clock is past its start.
InsertUser(p) ==
    /\ pc[p] = "insertUser"
    /\ LET row == NewRow(nextId, "user", message[p], ts[p])
       IN  /\ store' = store \cup {row}
           /\ userMessage' = [userMessage EXCEPT ![p] = row]
    /\ nextId' = nextId + 1
    /\ now' = Max(now, ts[p] + 1)
    /\ pc' = [pc EXCEPT ![p] = "load"]
    /\ UNCHANGED <<mode, message, character, ts, history, result, response, messages>>
    /\ UNCHANGED <<entityVars, pageVars>>

\* 2. Get conversation history (last 10 messages), then reverse it.
LoadHistory(p) ==
    /\ pc[p] = "load"
    /\ \E h \in Recent(store, HistoryLimit) :
          history' = [history EXCEPT ![p] = Reverse(h)]
    /\ pc' = [pc EXCEPT ![p] = "invoke"]
    /\ UNCHANGED <<store, nextId, now, mode, message, character, ts, userMessage, result,
                   response, messages>>
    /\ UNCHANGED <<entityVars, pageVars>>

\* 3. Build conversation messages: what agent.invoke is given
RoleOf(msg) == IF msg.role = "user" THEN "user" ELSE "assistant"

Entry(role, content) == [role |-> role, content |-> content]

RECURSIVE MapEntries(_)
MapEntries(msgs) ==
    IF msgs = << >> THEN << >>
    ELSE <<Entry(RoleOf(Head(msgs)), Head(msgs).content)>> \o MapEntries(Tail(msgs))

\* the history alone
conversationMessagesOfHistory(previousMessages, m) == MapEntries(previousMessages)

\* the current message ahead of the history
conversationMessagesCurrentFirst(previousMessages, m) ==
    <<Entry("user", m)>> \o MapEntries(previousMessages)

conversationMessages(previousMessages, m) ==
    MapEntries(previousMessages) \o <<Entry("user", m)>>

\* The model / agent call returns; the body reads the answer and issues
\* the INSERT of the assistant row.
ModelReturns(p, Ts, Rs) ==
    /\ pc[p] = "invoke"
    /\ \/ /\ mode[p] = "plain"
          /\ \E text \in Ts :
                result' = [result EXCEPT ![p] = [kind |-> "text", text |-> text]]
       \/ /\ mode[p] = "agent"
          /\ \E msgs \in Rs :
                result' = [result EXCEPT ![p] = [kind |-> "agent", messages |-> msgs]]
    /\ ts' = [ts EXCEPT ![p] = now]
    /\ pc' = [pc EXCEPT ![p] = "insertAssistant"]
    /\ UNCHANGED <<store, nextId, now, mode, message, character, userMessage, history, response,
                   messages>>
    /\ UNCHANGED <<entityVars, pageVars>>

\* a failure that takes the user row back
ModelFailsRollback(p) ==
    /\ pc[p] = "invoke"
    /\ pc' = [pc EXCEPT ![p] = "failed"]
    /\ response' = [response EXCEPT ![p] = [status |-> "UpstreamGenerationError"]]
    /\ store' = store \ {userMessage[p]}
    /\ UNCHANGED <<nextId, now, mode, message, character, ts, userMessage, history,
                   result, messages>>
    /\ UNCHANGED <<entityVars, pageVars>>

\* The model / agent call throws: the mutation fails.
ModelFails(p) ==
    /\ pc[p] = "invoke"
    /\ pc' = [pc EXCEPT ![p] = "failed"]
    /\ response' = [response EXCEPT ![p] = [status |-> "UpstreamGenerationError"]]
    /\ UNCHANGED <<store, nextId, now, mode, message, character, ts, userMessage, history, result,
                   messages>>
    /\ UNCHANGED <<entityVars, pageVars>>

\* an empty answer is not saved
InsertAssistantSkipEmpty(p) ==
    /\ pc[p] = "insertAssistant"
    /\ LET text == AssistantText(mode[p], result[p])
           row == NewRow(nextId, "assistant", text, ts[p])
       IN  /\ store' = IF Truthy(text) THEN store \cup {row} ELSE store
           /\ response' = [response EXCEPT ![p] =
                  ChatResponse(mode[p], userMessage[p], row, result[p], ts[p])]
    /\ nextId' = nextId + 1
    /\ now' = Max(now, ts[p] + 1)
    /\ pc' = [pc EXCEPT ![p] = "done"]
    /\ UNCHANGED <<mode, message, character, ts, userMessage, history, result, messages>>
    /\ UNCHANGED <<entityVars, pageVars>>

\* the answer is written over the user row instead of being inserted
InsertAssistantUpdates(p) ==
    /\ pc[p] = "insertAssistant"
    /\ LET row == NewRow(userMessage[p].id, "assistant",
                         AssistantText(mode[p], result[p]), ts[p])
       IN  /\ store' = (store \ {userMessage[p]}) \cup {row}
           /\ response' = [response EXCEPT ![p] =
                  ChatResponse(mode[p], userMessage[p], row, result[p], ts[p])]
    /\ nextId' = nextId + 1
    /\ now' = Max(now, ts[p] + 1)
    /\ pc' = [pc EXCEPT ![p] = "done"]
    /\ UNCHANGED <<mode, message, character, ts, userMessage, history, result, messages>>
    /\ UNCHANGED <<entityVars, pageVars>>

\* Save the response to database and return both rows.
InsertAssistant(p) ==
    /\ pc[p] = "insertAssistant"
    /\ LET row == NewRow(nextId, "assistant", AssistantText(mode[p], result[p]), ts[p])
       IN  /\ store' = store \cup {row}
           /\ response' = [response EXCEPT ![p] =
                  ChatResponse(mode[p], userMessage[p], row, result[p], ts[p])]
    /\ nextId' = nextId + 1
    /\ now' = Max(now, ts[p] + 1)
    /\ pc' = [pc EXCEPT ![p] = "done"]
    /\ UNCHANGED <<mode, message, character, ts, userMessage, history, result, messages>>
    /\ UNCHANGED <<entityVars, pageVars>>

\* The procedure's promise settles: the locals of the invocation are gone.
Returns(p) ==
    /\ pc[p] \in {"done", "failed", "rejected"}
    /\ pc' = [pc EXCEPT ![p] = "idle"]
    /\ mode' = [mode EXCEPT ![p] = "plain"]
    /\ message' = [message EXCEPT ![p] = EmptyStr]
    /\ character' = [character EXCEPT ![p] = None]
    /\ ts' = [ts EXCEPT ![p] = 0]
    /\ userMessage' = [userMessage EXCEPT ![p] = NoRow]
    /\ history' = [history EXCEPT ![p] = << >>]
    /\ result' = [result EXCEPT ![p] = NoResult]
    /\ response' = [response EXCEPT ![p] = NoResponse]

\* The caller has its answer; the slot serves the next request.
Return(p) ==
    /\ Returns(p)
    /\ UNCHANGED <<store, nextId, now, messages>>
    /\ UNCHANGED <<entityVars, pageVars>>

-----------------------------------------------------------------------------
(* getMessages, clearMessages *)

GetMessages ==
    /\ \E r \in All(store) : messages' = r
    /\ UNCHANGED <<store, nextId, now, procVars>>
    /\ UNCHANGED <<entityVars, pageVars>>

ClearMessages ==
    /\ store' = Cleared(store)
    /\ UNCHANGED <<nextId, now, procVars, messages>>
    /\ UNCHANGED <<entityVars, pageVars>>

-----------------------------------------------------------------------------
(* The Entity Store: values *)

\* a call of a procedure or a tool: its name, its input, what it gave
Call(name, in, o) == [call |-> name, input |-> in, outcome |-> o]

\* what a procedure or a tool gives its caller
Returned(v) == [kind |-> "return", value |-> v]
Thrown(e) == [kind |-> "throw", error |-> e]

\* a positive integer (z.number().int().positive())
IsPositiveInt(n) == n \in Int /\ n > 0

\* z.string().min(1).max(255), z.string().email().max(255), z.string().max(1000).optional()
CreateUserSchema(in) ==
    /\ StrLen(in.name) >= 1 /\ StrLen(in.name) <= MaxNameLen
    /\ IsEmail(in.email) /\ StrLen(in.email) <= MaxEmailLen
    /\ (in.bio.some => StrLen(in.bio.val) <= MaxBioLen)

\* CreateUserSchema.partial(): every key may be missing
UpdateUserSchema(data) ==
    /\ (data.name.some => StrLen(data.name.val) >= 1 /\ StrLen(data.name.val) <= MaxNameLen)
    /\ (data.email.some => IsEmail(data.email.val) /\ StrLen(data.email.val) <= MaxEmailLen)
    /\ (data.bio.some => StrLen(data.bio.val) <= MaxBioLen)

\* userId positive, title 1..500, content non-empty, published optional
CreatePostSchema(in) ==
    /\ IsPositiveInt(in.userId)
    /\ StrLen(in.title) >= 1 /\ StrLen(in.title) <= MaxTitleLen
    /\ StrLen(in.content) >= 1

\* CreatePostSchema.partial()
UpdatePostSchema(data) ==
    /\ (data.userId.some => IsPositiveInt(data.userId.val))
    /\ (data.title.some => StrLen(data.title.val) >= 1 /\ StrLen(data.title.val) <= MaxTitleLen)
    /\ (data.content.some => StrLen(data.content.val) >= 1)

\* the row an INSERT into User forms
NewUser(id, in, t) ==
    [id |-> id, name |-> in.name, email |-> in.email, bio |-> in.bio,
     createdAt |-> t, updatedAt |-> t]

\* the row an INSERT into Post forms: published defaults to false
NewPost(id, in, t) ==
    [id |-> id, userId |-> in.userId, title |-> in.title, content |-> in.content,
     published |-> IF in.published.some THEN in.published.val ELSE FALSE,
     createdAt |-> t, updatedAt |-> t]

\* .set({...input.data, updatedAt: new Date()}): the keys given replace the row's
SetUser(u, data, t) ==
    [u EXCEPT !.name = IF data.name.some THEN data.name.val ELSE @,
              !.email = IF data.email.some THEN data.email.val ELSE @,
              !.bio = IF data.bio.some THEN data.bio ELSE @,
              !.updatedAt = t]

SetPost(q, data, t) ==
    [q EXCEPT !.userId = IF data.userId.some THEN data.userId.val ELSE @,
              !.title = IF data.title.some THEN data.title.val ELSE @,
              !.content = IF data.content.some THEN data.content.val ELSE @,
              !.published = IF data.published.some THEN data.published.val ELSE @,
              !.updatedAt = t]

\* an email column without the unique constraint
EmailTakenNever(email, except) == FALSE

\* email: varchar(255).notNull().unique()
EmailTaken(email, except) == \E u \in users : u.id # except /\ u.email = email

\* userId: integer().notNull().references(() => User.id)
UserExists(id) == \E u \in users : u.id = id

-----------------------------------------------------------------------------
(* The Entity Store: userRouter, postRouter *)

\* Every procedure validates its input first (a ValidationError, nothing
\* else happens), then runs one statement.  A constraint the statement
\* violates makes it fail as a whole (a StoreError); the identity column has
\* drawn its value by then.  d is the time by which a statement that wrote a
\* row has moved the database clock.

\* userRouter.create: what it gives the caller
UserCreateOutcome(in) ==
    IF ~CreateUserSchema(in) THEN Thrown("ValidationError")
    ELSE IF EmailTaken(in.email, 0) THEN Thrown("StoreError")
    ELSE Returned(NewUser(nextUserId, in, now))

\* userRouter.create: what it does to the store
UserCreateEffect(in, d) ==
    /\ users' = IF UserCreateOutcome(in).kind = "return"
                THEN users \cup {UserCreateOutcome(in).value} ELSE users
    /\ nextUserId' = IF CreateUserSchema(in) THEN nextUserId + 1 ELSE nextUserId
    /\ now' = IF UserCreateOutcome(in).kind = "return" THEN now + d ELSE now
    /\ UNCHANGED <<posts, nextPostId>>

UserCreate(Ins, Ds, max) ==
    /\ nextUserId <= max
    /\ \E in \in Ins, d \in Ds :
          /\ UserCreateEffect(in, d)
          /\ output' = Call("user.create", in, UserCreateOutcome(in))
    /\ UNCHANGED <<store, nextId, messages, procVars, pageVars>>

\* userRouter.update: the row WHERE id = input.id, if there is one, is set
UserUpdateOutcome(id, data) ==
    IF ~(IsPositiveInt(id) /\ UpdateUserSchema(data)) THEN Thrown("ValidationError")
    ELSE IF ~UserExists(id) THEN Returned(None)
    ELSE IF data.email.some /\ EmailTaken(data.email.val, id) THEN Thrown("StoreError")
    ELSE Returned(Some(SetUser(CHOOSE u \in users : u.id = id, data, now)))

UserUpdate(Ids, Datas) ==
    /\ \E id \in Ids, data \in Datas :
          LET o == UserUpdateOutcome(id, data)
          IN  /\ output' = Call("user.update", [id |-> id, data |-> data], o)
              /\ users' = IF o.kind = "return" /\ o.value.some
                          THEN {u \in users : u.id # id} \cup {o.value.val}
                          ELSE users
    /\ UNCHANGED <<posts, nextUserId, nextPostId>>
    /\ UNCHANGED <<chatVars, procVars, pageVars>>

\* the relation joined on the post's own id
WithPostsById(u) == u @@ [posts |-> {q \in posts : q.id = u.id}]

\* with: { posts: true }: the posts whose userId is the user's id
WithPosts(u) == u @@ [posts |-> {q \in posts : q.userId = u.id}]

\* userRouter.getById
UserGetByIdOutcome(id) ==
    IF ~IsPositiveInt(id) THEN Thrown("ValidationError")
    ELSE IF ~UserExists(id) THEN Returned(None)
    ELSE Returned(Some(WithPosts(CHOOSE u \in users : u.id = id)))

UserGetById(Ids) ==
    /\ \E id \in Ids : output' = Call("user.getById", [id |-> id], UserGetByIdOutcome(id))
    /\ UNCHANGED <<users, posts, nextUserId, nextPostId>>
    /\ UNCHANGED <<chatVars, procVars, pageVars>>

\* userRouter.list: findMany({orderBy: desc(User.createdAt)})
UserListOutcomes == { Returned(o) : o \in DescOrders(users) }

UserList ==
    /\ \E o \in UserListOutcomes : output' = Call("user.list", None, o)
    /\ UNCHANGED <<users, posts, nextUserId, nextPostId>>
    /\ UNCHANGED <<chatVars, procVars, pageVars>>

\* userRouter.count
UserCountOutcome == Returned(Cardinality(users))

UserCount ==
    /\ output' = Call("user.count", None, UserCountOutcome)
    /\ UNCHANGED <<users, posts, nextUserId, nextPostId>>
    /\ UNCHANGED <<chatVars, procVars, pageVars>>

\* postRouter.create
PostCreateOutcome(in) ==
    IF ~CreatePostSchema(in) THEN Thrown("ValidationError")
    ELSE IF ~UserExists(in.userId) THEN Thrown("StoreError")
    ELSE Returned(NewPost(nextPostId, in, now))

PostCreateEffect(in, d) ==
    /\ posts' = IF PostCreateOutcome(in).kind = "return"
                THEN posts \cup {PostCreateOutcome(in).value} ELSE posts
    /\ nextPostId' = IF CreatePostSchema(in) THEN nextPostId + 1 ELSE nextPostId
    /\ now' = IF PostCreateOutcome(in).kind = "return" THEN now + d ELSE now
    /\ UNCHANGED <<users, nextUserId>>

PostCreate(Ins, Ds, max) ==
    /\ nextPostId <= max
    /\ \E in \in Ins, d \in Ds :
          /\ PostCreateEffect(in, d)
          /\ output' = Call("post.create", in, PostCreateOutcome(in))
    /\ UNCHANGED <<store, nextId, messages, procVars, pageVars>>

\* postRouter.update
PostUpdateOutcome(id, data) ==
    IF ~(IsPositiveInt(id) /\ UpdatePostSchema(data)) THEN Thrown("ValidationError")
    ELSE IF ~(\E q \in posts : q.id = id) THEN Returned(None)
    ELSE IF data.userId.some /\ ~UserExists(data.userId.val) THEN Thrown("StoreError")
    ELSE Returned(Some(SetPost(CHOOSE q \in posts : q.id = id, data, now)))

PostUpdate(Ids, Datas) ==
    /\ \E id \in Ids, data \in Datas :
          LET o == PostUpdateOutcome(id, data)
          IN  /\ output' = Call("post.update", [id |-> id, data |-> data], o)
              /\ posts' = IF o.kind = "return" /\ o.value.some
                          THEN {q \in posts : q.id # id} \cup {o.value.val}
                          ELSE posts
    /\ UNCHANGED <<users, nextUserId, nextPostId>>
    /\ UNCHANGED <<chatVars, procVars, pageVars>>

\* with: { user: true }: the user the post's userId references
WithUser(q) == q @@ [user |-> CHOOSE u \in users : u.id = q.userId]

RECURSIVE MapWithUser(_)
MapWithUser(qs) ==
    IF qs = << >> THEN << >> ELSE <<WithUser(Head(qs))>> \o MapWithUser(Tail(qs))

\* postRouter.getById
PostGetByIdOutcome(id) ==
    IF ~IsPositiveInt(id) THEN Thrown("ValidationError")
    ELSE IF ~(\E q \in posts : q.id = id) THEN Returned(None)
    ELSE Returned(Some(WithUser(CHOOSE q \in posts : q.id = id)))

PostGetById(Ids) ==
    /\ \E id \in Ids : output' = Call("post.getById", [id |-> id], PostGetByIdOutcome(id))
    /\ UNCHANGED <<users, posts, nextUserId, nextPostId>>
    /\ UNCHANGED <<chatVars, procVars, pageVars>>

\* z.object({limit: z.number().int().positive().max(100).default(50)}).optional()
ListInputValid(inp) ==
    inp.some => (inp.val.limit.some =>
                    IsPositiveInt(inp.val.limit.val) /\ inp.val.limit.val <= MaxLimit)

\* a missing input taken as the largest limit
ListLimitOfMissingInput(inp) ==
    IF ~inp.some THEN MaxLimit
    ELSE IF inp.val.limit.some THEN inp.val.limit.val
    ELSE DefaultLimit

\* the limit of the query: .default(50) for a missing key, ?? 50 for a
\* missing input
ListLimit(inp) ==
    IF ~inp.some THEN DefaultLimit
    ELSE IF inp.val.limit.some THEN inp.val.limit.val
    ELSE DefaultLimit

\* postRouter.list: findMany({orderBy: desc(Post.createdAt), limit, with: {user}})
PostListOutcomes(inp) ==
    IF ~ListInputValid(inp) THEN { Thrown("ValidationError") }
    ELSE { Returned(MapWithUser(SubSeq(o, 1, Min(ListLimit(inp), Len(o))))) :
              o \in DescOrders(posts) }

PostList(Inps) ==
    /\ \E inp \in Inps : \E o \in PostListOutcomes(inp) : output' = Call("post.list", inp, o)
    /\ UNCHANGED <<users, posts, nextUserId, nextPostId>>
    /\ UNCHANGED <<chatVars, procVars, pageVars>>

\* postRouter.listByUser
PostListByUserOutcomes(userId) ==
    IF ~IsPositiveInt(userId) THEN { Thrown("ValidationError") }
    ELSE { Returned(o) : o \in DescOrders({q \in posts : q.userId = userId}) }

PostListByUser(Ids) ==
    /\ \E id \in Ids : \E o \in PostListByUserOutcomes(id) :
          output' = Call("post.listByUser", [userId |-> id], o)
    /\ UNCHANGED <<users, posts, nextUserId, nextPostId>>
    /\ UNCHANGED <<chatVars, procVars, pageVars>>

-----------------------------------------------------------------------------
(* Tool adapters: createUserTools, createPostTools *)

\* A template literal: its literal pieces and the values put between them.
Text(parts) == [kind |-> "text", parts |-> parts]
\* JSON.stringify(value, null, 2)
Json(value) == [kind |-> "json", value |-> value]

\* The tool's schema refuses the input: func is not called.
ToolInputError == Thrown("ToolInputParsingException")

\* s.substring(0, n)
Substring(s, n) == Str(s.tag, Min(StrLen(s), n))

\* create_user: name z.string(), email z.string().email(), bio z.string().optional()
createUserToolSchema(in) == IsEmail(in.email)

\* createUserTool.func, given what caller.user.create gave
createUserToolFunc(o) ==
    IF o.kind = "throw" THEN o
    ELSE Returned(Text(<<"Successfully created user: ", o.value.name, " (ID: ", o.value.id,
                         ", Email: ", o.value.email, ")">>))

createUserTool(Ins, Ds, max) ==
    /\ nextUserId <= max
    /\ \E in \in Ins, d \in Ds :
          IF createUserToolSchema(in)
          THEN /\ UserCreateEffect(in, d)
               /\ output' = Call("create_user", in, createUserToolFunc(UserCreateOutcome(in)))
          ELSE /\ output' = Call("create_user", in, ToolInputError)
               /\ UNCHANGED <<users, posts, nextUserId, nextPostId, now>>
    /\ UNCHANGED <<store, nextId, messages, procVars, pageVars>>

\* get_user: id z.number().int().positive()
getUserToolSchema(in) == IsPositiveInt(in.id)

\* func without the test for a missing user: user.id of undefined
getUserToolFuncUnchecked(id, o) ==
    IF o.kind = "throw" THEN o
    ELSE IF ~o.value.some THEN Thrown("TypeError")
    ELSE Returned(Json([id |-> o.value.val.id, name |-> o.value.val.name]))

\* getUserTool.func, given what caller.user.getById gave
getUserToolFunc(id, o) ==
    IF o.kind = "throw" THEN o
    ELSE IF ~o.value.some THEN Returned(Text(<<"User with ID ", id, " not found">>))
    ELSE LET user == o.value.val
         IN  Returned(Json([id |-> user.id, name |-> user.name, email |-> user.email,
                            bio |-> user.bio, postCount |-> Cardinality(user.posts),
                            createdAt |-> user.createdAt]))

getUserTool(Ins) ==
    /\ \E in \in Ins :
          output' = Call("get_user", in,
                         IF getUserToolSchema(in)
                         THEN getUserToolFunc(in.id, UserGetByIdOutcome(in.id))
                         ELSE ToolInputError)
    /\ UNCHANGED <<users, posts, nextUserId, nextPostId>>
    /\ UNCHANGED <<chatVars, procVars, pageVars>>

RECURSIVE UserSummaries(_)
UserSummaries(us) ==
    IF us = << >> THEN << >>
    ELSE <<[id |-> Head(us).id, name |-> Head(us).name, email |-> Head(us).email]>>
         \o UserSummaries(Tail(us))

\* listUsersTool.func, given what caller.user.list gave
listUsersToolFunc(o) ==
    IF o.kind = "throw" THEN o
    ELSE IF Len(o.value) = 0 THEN Returned(Text(<<"No users found in the database.">>))
    ELSE Returned(Json(UserSummaries(o.value)))

listUsersTool ==
    /\ \E o \in UserListOutcomes : output' = Call("list_users", None, listUsersToolFunc(o))
    /\ UNCHANGED <<users, posts, nextUserId, nextPostId>>
    /\ UNCHANGED <<chatVars, procVars, pageVars>>

\* countUsersTool.func
countUsersToolFunc(o) ==
    IF o.kind = "throw" THEN o
    ELSE Returned(Text(<<"Total users in database: ", o.value>>))

countUsersTool ==
    /\ output' = Call("count_users", None, countUsersToolFunc(UserCountOutcome))
    /\ UNCHANGED <<users, posts, nextUserId, nextPostId>>
    /\ UNCHANGED <<chatVars, procVars, pageVars>>

\* create_post: userId z.number().int().positive(), title z.string(),
\* content z.string(), published z.boolean().optional()
createPostToolSchema(in) == IsPositiveInt(in.userId)

\* createPostTool.func, given what caller.post.create gave
createPostToolFunc(o) ==
    IF o.kind = "throw" THEN o
    ELSE Returned(Text(<<"Successfully created post: \"", o.value.title, "\" (ID: ", o.value.id,
                         ") for user ", o.value.userId, ". Published: ",
                         o.value.published>>))

createPostTool(Ins, Ds, max) ==
    /\ nextPostId <= max
    /\ \E in \in Ins, d \in Ds :
          IF createPostToolSchema(in)
          THEN /\ PostCreateEffect(in, d)
               /\ output' = Call("create_post", in, createPostToolFunc(PostCreateOutcome(in)))
          ELSE /\ output' = Call("create_post", in, ToolInputError)
               /\ UNCHANGED <<users, posts, nextUserId, nextPostId, now>>
    /\ UNCHANGED <<store, nextId, messages, procVars, pageVars>>

\* get_posts_by_user: userId z.number().int().positive()
getPostsByUserToolSchema(in) == IsPositiveInt(in.userId)

RECURSIVE PostPreviews(_)
PostPreviews(qs) ==
    IF qs = << >> THEN << >>
    ELSE <<[id |-> Head(qs).id, title |-> Head(qs).title, published |-> Head(qs).published,
            contentPreview |-> Cat(Substring(Head(qs).content, 100), Str("...", 3)),
            createdAt |-> Head(qs).createdAt]>>
         \o PostPreviews(Tail(qs))

\* getPostsByUserTool.func, given what caller.post.listByUser gave
getPostsByUserToolFunc(userId, o) ==
    IF o.kind = "throw" THEN o
    ELSE IF Len(o.value) = 0
         THEN Returned(Text(<<"User ", userId, " has not created any posts yet.">>))
    ELSE Returned(Json(PostPreviews(o.value)))

getPostsByUserTool(Ins) ==
    /\ \E in \in Ins :
          IF getPostsByUserToolSchema(in)
          THEN \E o \in PostListByUserOutcomes(in.userId) :
                  output' = Call("get_posts_by_user", in, getPostsByUserToolFunc(in.userId, o))
          ELSE output' = Call("get_posts_by_user", in, ToolInputError)
    /\ UNCHANGED <<users, posts, nextUserId, nextPostId>>
    /\ UNCHANGED <<chatVars, procVars, pageVars>>

RECURSIVE PostSummaries(_)
PostSummaries(qs) ==
    IF qs = << >> THEN << >>
    ELSE <<[id |-> Head(qs).id, title |-> Head(qs).title,
            authorName |-> Head(qs).user.name,
            published |-> Head(qs).published, createdAt |-> Head(qs).createdAt]>>
         \o PostSummaries(Tail(qs))

\* listPostsTool.func, given what caller.post.list() gave
listPostsToolFunc(o) ==
    IF o.kind = "throw" THEN o
    ELSE IF Len(o.value) = 0 THEN Returned(Text(<<"No posts found in the database.">>))
    ELSE Returned(Json(PostSummaries(o.value)))

\* caller.post.list(): no input
listPostsTool ==
    /\ \E o \in PostListOutcomes(None) : output' = Call("list_posts", None, listPostsToolFunc(o))
    /\ UNCHANGED <<users, posts, nextUserId, nextPostId>>
    /\ UNCHANGED <<chatVars, procVars, pageVars>>

-----------------------------------------------------------------------------
(* The chat page *)

\* the invocation slot that serves the page
Client == "p1"

\* A text of the textarea is a sequence of runs, each a run of white space
\* or a run of other characters.
Blank(run) == run.tag = " "
Spaces(n) == Str(" ", n)

\* input.trim(): the text without the white space at its ends
RECURSIVE TrimStart(_)
TrimStart(text) ==
    IF text = << >> THEN << >>
    ELSE IF Blank(Head(text)) THEN TrimStart(Tail(text))
    ELSE text

Trim(text) == Reverse(TrimStart(Reverse(TrimStart(text))))

\* the runs put together: the string the text is
RECURSIVE ToStr(_)
ToStr(text) == IF text = << >> THEN EmptyStr ELSE Cat(Head(text), ToStr(Tail(text)))

\* texts a user may leave in the textarea
Typed ==
    { << >>, <<Spaces(2)>>, <<Hello>>, <<Spaces(1), Hello, Spaces(1)>>,
      <<Str("X", MaxContentLen + 1)>> }

\* what the page shows besides the header and the form
Rendered ==
    (IF Len(messages) = 0 THEN {"empty state"} ELSE {"message list"})
    \cup (IF isLoading THEN {"loading indicator"} ELSE {})

\* disabled={isLoading}, disabled={!input.trim() || isLoading}
TextareaDisabled == isLoading
SendDisabled == ~Truthy(ToStr(Trim(input))) \/ isLoading

\* a Clear Chat button that is disabled while a send is in flight
ClearChatDisabledWhileLoading == isLoading

\* the Clear Chat button has no disabled attribute
ClearChatDisabled == FALSE

\* onClick={() => clearMessages.mutate()}
ClearChat ==
    /\ ~ClearChatDisabled
    /\ ClearMessages

\* onChange={(e) => setInput(e.target.value)}
OnChange ==
    /\ ~TextareaDisabled
    /\ \E text \in Typed : input' = text
    /\ UNCHANGED <<isLoading, sendMessage, sends>>
    /\ UNCHANGED <<chatVars, procVars, entityVars>>

\* a handler that does not test isLoading
HandleSubmitWhileLoading ==
    /\ IF ~Truthy(ToStr(Trim(input)))
       THEN UNCHANGED <<isLoading, sendMessage, sends>>
       ELSE /\ isLoading' = TRUE
            /\ sendMessage' = "pending"
            /\ sends' = sends + 1
    /\ UNCHANGED <<input, chatVars, procVars, entityVars>>

\* handleSubmit, called by the form's submit event and by the Enter key
\* without Shift: it tests isLoading itself, whatever the state of the
\* controls that call it
HandleSubmit ==
    /\ IF ~Truthy(ToStr(Trim(input))) \/ isLoading
       THEN UNCHANGED <<isLoading, sendMessage, sends>>
       ELSE /\ isLoading' = TRUE
            /\ sendMessage' = "pending"
            /\ sends' = sends + 1
    /\ UNCHANGED <<input, chatVars, procVars, entityVars>>

\* sendMessage.mutate({message: input.trim()}): the request the server sees
Request == ToStr(Trim(input))

\* onError: the mutation failed (the procedure threw, or the request never
\* reached it): the error is logged, isLoading is reset
OnError ==
    /\ sendMessage = "pending"
    /\ \/ /\ pc[Client] \in {"failed", "rejected"}
          /\ Returns(Client)
       \/ /\ pc[Client] = "idle"
          /\ UNCHANGED procVars
    /\ isLoading' = FALSE
    /\ sendMessage' = "error"
    /\ sends' = sends - 1
    /\ UNCHANGED <<input, chatVars, entityVars>>

\* onSuccess starts: queryClient.invalidateQueries is awaited
OnSuccess ==
    /\ sendMessage = "pending"
    /\ pc[Client] = "done"
    /\ Returns(Client)
    /\ sendMessage' = "invalidating"
    /\ sends' = sends - 1
    /\ UNCHANGED <<input, isLoading, chatVars, entityVars>>

\* the invalidation settles (getMessages refetched, or the refetch failed,
\* which invalidateQueries swallows): setInput(""), setIsLoading(false)
Invalidated ==
    /\ sendMessage = "invalidating"
    /\ \/ \E r \in All(store) : messages' = r
       \/ UNCHANGED messages
    /\ input' = << >>
    /\ isLoading' = FALSE
    /\ sendMessage' = "success"
    /\ UNCHANGED <<sends, store, nextId, now, procVars, entityVars>>

-----------------------------------------------------------------------------
(* The clock *)

\* Time passes.  Only the passing of time that a row can show is modelled:
\* the clock moves on while an INSERT that started at this instant is in
\* flight (forming a row moves it on as well, see InsertUser).
Tick ==
    /\ \E q \in Procs : pc[q] \in {"insertUser", "insertAssistant"} /\ ts[q] = now
    /\ now' = now + 1
    /\ UNCHANGED <<store, nextId, procVars, messages>>
    /\ UNCHANGED <<entityVars, pageVars>>

-----------------------------------------------------------------------------
(* Specifications *)

\* Spec: concurrent invocations of the chat procedures and clearMessages.
Next ==
    \/ \E p \in Procs : ChatRejected(p, Modes, LeanMessages, LeanCharacters)
    \/ \E p \in Procs : ChatCall(p, Modes, LeanMessages, LeanCharacters)
    \/ \E p \in Procs : InsertUser(p)
    \/ \E p \in Procs : LoadHistory(p)
    \/ \E p \in Procs : ModelReturns(p, LeanTexts, LeanAgentResults)
    \/ \E p \in Procs : ModelFails(p)
    \/ \E p \in Procs : InsertAssistant(p)
    \/ \E p \in Procs : Return(p)
    \/ ClearMessages
    \/ Tick

Spec == Init /\ [][Next]_vars

\* SpecSeq: one client, one request at a time, every kind of input.
Idle == \A p \in Procs : pc[p] = "idle"

NextSeq ==
    \/ ChatRejected(Client, Modes, Messages, Characters)
    \/ ChatCall(Client, Modes, Messages, Characters)
    \/ InsertUser(Client)
    \/ LoadHistory(Client)
    \/ ModelReturns(Client, Texts, AgentResults)
    \/ ModelFails(Client)
    \/ InsertAssistant(Client)
    \/ Return(Client)
    \/ (Idle /\ GetMessages)
    \/ (Idle /\ ClearMessages)

SpecSeq == Init /\ [][NextSeq]_vars


\* SpecEntity: the procedures that write the Entity Store, and getById,
\* called in any order, all within one instant of the database clock (the
\* timestamps of the rows play no part in what these procedures do).
NextEntity ==
    \/ UserCreate(UserInputs, {0}, MaxUsers)
    \/ UserUpdate(EntityIds, UserDatas)
    \/ UserGetById(EntityIds)
    \/ PostCreate(PostInputs, {0}, MaxPosts)
    \/ PostUpdate(EntityIds, PostDatas)

SpecEntity == Init /\ [][NextEntity]_vars

\* SpecTools: the tools, called in any order by the agent runtime, and the
\* reading procedures, called in between.
NextTools ==
    \/ UserList
    \/ UserCount
    \/ PostGetById(EntityIds)
    \/ PostListByUser(EntityIds)
    \/ createUserTool(UserInputs, {1}, MaxUsers)
    \/ getUserTool({[id |-> i] : i \in EntityIds})
    \/ listUsersTool
    \/ countUsersTool
    \/ createPostTool(PostInputs, Durations, MaxPosts)
    \/ getPostsByUserTool({[userId |-> i] : i \in EntityIds})
    \/ listPostsTool

SpecTools == Init /\ [][NextTools]_vars

\* SpecPosts: one user, once created, writes post after post, one at a time;
\* the lists are read in between.
NextPosts ==
    \/ UserCreate({UserInput(Ada, AdaEmail, None)}, {1}, 1)
    \/ (users # {} /\ PostCreate({PostInput(1, Title, Body, None)}, {1}, LongPosts))
    \/ PostList(ListInputs)
    \/ listPostsTool

SpecPosts == Init /\ [][NextPosts]_vars

\* SpecPage: one chat page against the agent router.
NextPage ==
    \/ OnChange
    \/ HandleSubmit
    \/ (sendMessage = "pending" /\ ChatRejected(Client, {"agent"}, {Request}, {None}))
    \/ (sendMessage = "pending" /\ ChatCall(Client, {"agent"}, {Request}, {None}))
    \/ InsertUser(Client)
    \/ LoadHistory(Client)
    \/ ModelReturns(Client, LeanTexts, LeanAgentResults)
    \/ ModelFails(Client)
    \/ InsertAssistant(Client)
    \/ OnError
    \/ OnSuccess
    \/ Invalidated
    \/ GetMessages
    \/ ClearChat

SpecPage == Init /\ [][NextPage]_vars

\* SpecWindow: one client, one request at a time, every request answered,
\* in a conversation that outgrows the context window.
WindowMessages == {Hello, Str("h", MinContentLen)}

NextWindow ==
    \/ (Budget(LongId) /\ ChatStarts(Client, Modes, WindowMessages, {None}))
    \/ InsertUser(Client)
    \/ LoadHistory(Client)
    \/ ModelReturns(Client, {Str("Hi there", 8)}, LeanAgentResults)
    \/ InsertAssistant(Client)
    \/ Return(Client)

SpecWindow == Init /\ [][NextWindow]_vars

\* SpecChats: concurrent invocations of the chat procedures, no clearMessages.
NextChats ==
    \/ \E p \in Procs : ChatRejected(p, Modes, LeanMessages, LeanCharacters)
    \/ \E p \in Procs : ChatCall(p, Modes, LeanMessages, LeanCharacters)
    \/ \E p \in Procs : InsertUser(p)
    \/ \E p \in Procs : LoadHistory(p)
    \/ \E p \in Procs : ModelReturns(p, LeanTexts, LeanAgentResults)
    \/ \E p \in Procs : ModelFails(p)
    \/ \E p \in Procs : InsertAssistant(p)
    \/ \E p \in Procs : Return(p)
    \/ Tick

SpecChats == Init /\ [][NextChats]_vars

\* SpecCrowd: the first invocation of a conversation, by one client, and
\* the invocations of another client that overlap it, every request
\* answered, as many as a conversation longer than the context window takes.
NextCrowd ==
    \/ (nextId = 1 /\ ChatStarts(Client, Modes, {Hello}, {None}))
    \/ \E p \in Procs \ {Client} :
          (Budget(LongId) /\ ChatStarts(p, {"plain"}, {Str("h", MinContentLen)}, {None}))
    \/ \E p \in Procs : InsertUser(p)
    \/ \E p \in Procs : LoadHistory(p)
    \/ \E p \in Procs : ModelReturns(p, {Str("Hi there", 8)}, LeanAgentResults)
    \/ \E p \in Procs : InsertAssistant(p)
    \/ \E p \in Procs : Return(p)

SpecCrowd == Init /\ [][NextCrowd]_vars

-----------------------------------------------------------------------------
(* Claims *)

\* C1. When the model / agent call of a chat invocation fails, the
\* invocation fails, no assistant row is appended, and the user row it
\* persisted stays in the table: run one request at a time, getMessages
\* afterwards returns the user's message as its last row.
C1_FailureKeepsUserTurn ==
    \A p \in Procs :
        pc[p] = "failed" =>
            /\ response[p].status = "UpstreamGenerationError"
            /\ userMessage[p] \in store
            /\ userMessage[p].role = "user"
            /\ userMessage[p].content = message[p]
            /\ \A r \in store : r.id > userMessage[p].id => r.role # "assistant"
            /\ \A all \in All(store) : Len(all) > 0 /\ Last(all) = userMessage[p]

C1_Witness ==
    /\ pc[Client] = "failed"
    /\ Cardinality(store) >= 3
    /\ \E r \in store : r.role = "assistant"

\* C2. A chat request whose input fails validation (message of length 0 or
\* above 10000, or in plain mode a persona key outside the enumerated set)
\* is rejected in one step that changes neither the table nor the identity
\* sequence and calls no model; every other request is accepted, so length
\* 10000 is accepted and length 10001 rejected.
C2_BadInput(md, m, c) ==
    \/ m.len = 0
    \/ m.len > 10000
    \/ /\ md = "plain"
       /\ c.some
       /\ c.val \notin {"default", "luffy", "ironman", "goku"}

C2_RejectedBeforeAnyEffect ==
    [][\A p \in Procs :
          (pc[p] = "idle" /\ pc'[p] # "idle") =>
              IF C2_BadInput(mode'[p], message'[p], character'[p])
              THEN /\ pc'[p] = "rejected"
                   /\ response'[p].status = "ValidationError"
                   /\ store' = store
                   /\ nextId' = nextId
                   /\ result' = result
              ELSE /\ pc'[p] = "insertUser"
                   /\ response'[p] = NoResponse]_vars

C2_Witness ==
    /\ pc[Client] = "rejected"
    /\ message[Client].len = 10001
    /\ \E r \in store : r.role = "user" /\ r.content.len = 10000


\* C3. A successful chat invocation run in isolation appends exactly two
\* rows, first a user row holding the request message and then an assistant
\* row holding the generated text, and returns those two rows; when the table
\* was empty before, getMessages afterwards returns exactly the user row
\* followed by the assistant row.
C3_GeneratedText(p, a) ==
    IF result[p].kind = "text" THEN a.content = result[p].text
    ELSE IF result[p].messages = << >> THEN TRUE
    ELSE IF Last(result[p].messages).content.kind = "string"
         THEN a.content = Last(result[p].messages).content.s
    ELSE TRUE

C3_TwoRowsInOrder ==
    \A p \in Procs :
        pc[p] = "done" =>
            LET u == response[p].userMessage
                a == response[p].assistantMessage
            IN  /\ response[p].status = "ok"
                /\ u.role = "user" /\ u.content = message[p]
                /\ a.role = "assistant" /\ C3_GeneratedText(p, a)
                /\ a.id = u.id + 1
                /\ {r \in store : r.id >= u.id} = {u, a}
                /\ (\A r \in store : r.id >= u.id) => All(store) = { <<u, a>> }
                /\ \A all \in All(store) :
                      /\ Len(all) >= 2
                      /\ all[Len(all) - 1] = u
                      /\ all[Len(all)] = a

C3_Witness ==
    /\ pc[Client] = "done"
    /\ Cardinality(store) = 2
    /\ message[Client] = Hello
    /\ response[Client].assistantMessage.content = Str("Hi there", 8)
    /\ \E all \in All(store) :
          /\ all[1].role = "user" /\ all[1].content = Hello
          /\ all[2].role = "assistant" /\ all[2].content = Str("Hi there", 8)

\* C4. clearMessages succeeds on every state of the table, the empty table
\* included (clearing twice equals clearing once), and leaves it empty: all()
\* afterwards returns the empty sequence, and a chat call made afterwards
\* succeeds.
C4_ClearEmptiesTheStore ==
    [][/\ ENABLED ClearMessages
       /\ Cleared(Cleared(store)) = Cleared(store)
       /\ ClearMessages => (store' = {} /\ All(store') = { << >> })]_vars

C4_Witness ==
    \E p \in Procs :
        /\ pc[p] = "done"
        /\ response[p].userMessage.id > 1
        /\ store = {response[p].userMessage, response[p].assistantMessage}
        /\ history[p] = <<response[p].userMessage>>

\* C5. In every reachable state of the table and for every n, recent(n)
\* returns at most n rows, most recent first; all() returns every row, oldest
\* first; and recent(n) with n at least the number of rows is exactly the
\* reverse of all(), also when two rows carry the same createdAt.
C5_Descending(r) == \A i \in 1..(Len(r) - 1) : r[i].createdAt >= r[i + 1].createdAt
C5_Ascending(a) == \A i \in 1..(Len(a) - 1) : a[i].createdAt <= a[i + 1].createdAt

C5_RecentReversesAll ==
    \A n \in 0..(Cardinality(store) + 1) :
        /\ \A r \in Recent(store, n) : Len(r) <= n /\ C5_Descending(r)
        /\ \A a \in All(store) :
              /\ Len(a) = Cardinality(store)
              /\ {a[i] : i \in 1..Len(a)} = store
              /\ C5_Ascending(a)
        /\ n >= Cardinality(store) =>
              \A r \in Recent(store, n), a \in All(store) : r = Reverse(a)

\* C6. Every row of the table, in every reachable state, has role user or
\* assistant and a content of 1 to 10000 characters.
C6_RowsAreValid ==
    \A r \in store :
        /\ r.role \in {"user", "assistant"}
        /\ r.content.len >= 1
        /\ r.content.len <= 10000

\* C7. When the model / agent call returns with empty text (agent mode: the
\* last result message has no string and no text part to give), chat still
\* appends an assistant row, with the empty string as content, and returns
\* success.
C7_TextlessPart(c) ==
    IF c.kind = "string" THEN c.s.len = 0
    ELSE IF c.text.some THEN c.text.val.len = 0
    ELSE TRUE

C7_EmptyAnswer(p) ==
    IF result[p].kind = "text" THEN result[p].text.len = 0
    ELSE IF result[p].messages = << >> THEN TRUE
    ELSE LET c == Last(result[p].messages).content
         IN  IF c.kind = "string" THEN c.s.len = 0
             ELSE IF c.kind = "array"
                  THEN \A i \in 1..Len(c.parts) : C7_TextlessPart(c.parts[i])
             ELSE TRUE

C7_EmptyAnswerIsSaved ==
    \A p \in Procs :
        (pc[p] = "done" /\ C7_EmptyAnswer(p)) =>
            /\ response[p].status = "ok"
            /\ response[p].assistantMessage \in store
            /\ response[p].assistantMessage.role = "assistant"
            /\ response[p].assistantMessage.content = EmptyStr
            /\ response[p].assistantMessage.id > response[p].userMessage.id

C7_Witness ==
    /\ pc[Client] = "done"
    /\ mode[Client] = "agent"
    /\ result[Client].messages # << >>
    /\ Last(result[Client].messages).content.kind = "array"
    /\ response[Client].assistantMessage.content = EmptyStr
    /\ response[Client].assistantMessage \in store

\* C8. The table is append-only apart from clear: no step changes the id,
\* role, content or createdAt of a row; the only step that removes rows is
\* clearMessages, which removes all of them; chat never removes or rewrites a
\* row and getMessages changes nothing.
C8_AppendOnlyApartFromClear ==
    [][/\ \A r \in store, q \in store' : r.id = q.id => r = q
       /\ (store \ store' # {}) => (ClearMessages /\ store' = {})
       /\ (\E p \in Procs : pc'[p] # pc[p]) => store \subseteq store'
       /\ messages' # messages => (store' = store /\ nextId' = nextId)]_vars

C8_Witness ==
    /\ pc[Client] = "done"
    /\ Cardinality(store) = 4
    /\ Len(messages) = 2

\* C9. Message ids are unique and strictly increase with insertion order, ids
\* are not reused after a clear, and createdAt is non-decreasing in id order
\* (ties allowed), in every reachable state, interleaved concurrent chat calls
\* included.
C9_IdsAndTimesAgree ==
    \A r \in store, q \in store :
        /\ r.id = q.id => r = q
        /\ r.id < nextId
        /\ r.id < q.id => r.createdAt <= q.createdAt

\* C9, amended.  Message ids are unique, strictly increase with insertion
\* order and are not reused after a clear, in every reachable state,
\* interleaved concurrent chat calls included.  createdAt follows the order in
\* which INSERTs are issued: an INSERT issued after a row was formed stamps
\* its row strictly later than that row.  (INSERTs that overlap may tie, or
\* give the row with the larger id the earlier createdAt.)
C9_IdsIncreaseTimesFollowIssue ==
    [][/\ \A r \in store', q \in store' : r.id = q.id => r = q
       /\ \A r \in store' : r.id < nextId' /\ r.createdAt < now'
       /\ nextId' >= nextId
       /\ \A r \in store' \ store :
             /\ r.id >= nextId
             /\ \A q \in store : q.id < r.id
       /\ \A p \in Procs :
             (pc'[p] \in {"insertUser", "insertAssistant"} /\ pc'[p] # pc[p]) =>
                 \A r \in store : r.createdAt < ts'[p]
       /\ \A p \in Procs :
             (pc[p] \in {"insertUser", "insertAssistant"} /\ pc'[p] # pc[p]) =>
                 \E r \in store' \ store : r.createdAt = ts[p] /\ r.id = nextId]_vars

C9_Witness ==
    /\ Cardinality(store) = 1
    /\ \E r \in store : r.id = 3
    /\ \E p \in Procs : pc[p] = "done"
    /\ \E p \in Procs : pc[p] \in {"load", "invoke"}

\* C10. The response of chat carries toolCalls only in agent mode and only
\* when the agent's run held at least one tool call: without one the field is
\* undefined, never an empty list, and the plain response has no such field.
\* When present it has one entry per tool call of the result messages, in
\* message order.
RECURSIVE C10_CallsOf(_)
C10_CallsOf(msgs) ==
    IF msgs = << >> THEN << >>
    ELSE (IF Head(msgs).tool_calls.present THEN Head(msgs).tool_calls.calls ELSE << >>)
         \o C10_CallsOf(Tail(msgs))

C10_NameOf(call) ==
    IF call.name.some THEN (IF call.name.val = "" THEN "unknown" ELSE call.name.val)
    ELSE "unknown"

C10_ToolCallsOnlyWhenInvoked ==
    \A p \in Procs :
        pc[p] = "done" =>
            IF mode[p] = "plain" THEN "toolCalls" \notin DOMAIN response[p]
            ELSE LET calls == C10_CallsOf(result[p].messages)
                     field == response[p].toolCalls
                 IN  IF calls = << >> THEN field = None
                     ELSE /\ field.some
                          /\ Len(field.val) = Len(calls)
                          /\ \A i \in 1..Len(calls) :
                                /\ field.val[i].toolName = C10_NameOf(calls[i])
                                /\ field.val[i].input = calls[i].args

C10_Witness ==
    /\ pc[Client] = "done"
    /\ mode[Client] = "agent"
    /\ response[Client].toolCalls.some
    /\ Len(response[Client].toolCalls.val) = 3
    /\ response[Client].toolCalls.val[2].toolName = "unknown"
    /\ response[Client].toolCalls.val[1].toolName = "count_users"
\* C11. The reading tools absorb a missing user and an empty result into a
\* sentence: get_user on an id with no User returns "User with ID <id> not
\* found", list_users, list_posts and get_posts_by_user on an empty result
\* return their explicit no-results sentence, and none of them throws on an
\* input its schema accepts.
C11_ReadingTools == {"get_user", "list_users", "count_users", "list_posts", "get_posts_by_user"}

C11_SchemaAccepts ==
    CASE output.call = "get_user" -> IsPositiveInt(output.input.id)
      [] output.call = "get_posts_by_user" -> IsPositiveInt(output.input.userId)
      [] OTHER -> TRUE

C11_NotFoundIsASentence ==
    (output.call \in C11_ReadingTools /\ C11_SchemaAccepts) =>
        /\ output.outcome.kind = "return"
        /\ output.outcome.value.kind \in {"text", "json"}
        /\ (output.call = "get_user" /\ ~(\E u \in users : u.id = output.input.id)) =>
              output.outcome.value = Text(<<"User with ID ", output.input.id, " not found">>)
        /\ (output.call = "list_users" /\ users = {}) =>
              output.outcome.value = Text(<<"No users found in the database.">>)
        /\ (output.call = "list_posts" /\ posts = {}) =>
              output.outcome.value = Text(<<"No posts found in the database.">>)
        /\ (output.call = "get_posts_by_user"
               /\ ~(\E q \in posts : q.userId = output.input.userId)) =>
              output.outcome.value =
                  Text(<<"User ", output.input.userId, " has not created any posts yet.">>)

C11_Witness ==
    /\ output.call = "get_user"
    /\ output.input.id = 9
    /\ \E u \in users : u.id = 1
    /\ posts # {}
    /\ output.outcome = Returned(Text(<<"User with ID ", 9, " not found">>))
\* C12. Every input the create_user schema accepts is accepted by
\* createUser's validation (name 1..255, email well-formed and at most 255,
\* bio at most 1000), and every input the create_post schema accepts by
\* createPost's (title 1..500, content non-empty): a tool call with a
\* schema-valid input never fails with a validation error inside the adapter.
C12_SchemaValidCallPassesValidation ==
    /\ (output.call = "create_user" /\ createUserToolSchema(output.input)) =>
          /\ CreateUserSchema(output.input)
          /\ output.outcome.kind = "throw" => output.outcome.error # "ValidationError"
    /\ (output.call = "create_post" /\ createPostToolSchema(output.input)) =>
          /\ CreatePostSchema(output.input)
          /\ output.outcome.kind = "throw" => output.outcome.error # "ValidationError"
\* C13. Round trip through the Entity Store.  A createUser that returns a
\* row makes getUser on the returned id yield that row with an empty posts
\* list (before, the id was not found).  A createPost that returns a row adds
\* exactly that row to the posts getUser yields for the user it names, every
\* post there carries the user's id, and what getUser yields for any other id
\* stays as it was.
C13_Fetched == [id \in 1..MaxUsers |-> UserGetByIdOutcome(id).value]

C13_RoundTrip ==
    [][/\ (output'.call = "user.create" /\ output'.outcome.kind = "return") =>
             LET r == output'.outcome.value
             IN  /\ ~C13_Fetched[r.id].some
                 /\ C13_Fetched'[r.id].some
                 /\ C13_Fetched'[r.id].val = r @@ [posts |-> {}]
                 /\ r.name = output'.input.name /\ r.email = output'.input.email
       /\ (output'.call = "post.create" /\ output'.outcome.kind = "return") =>
             LET q == output'.outcome.value
             IN  /\ q.userId = output'.input.userId
                 /\ q.title = output'.input.title /\ q.content = output'.input.content
                 /\ C13_Fetched'[q.userId].some
                 /\ C13_Fetched'[q.userId].val.posts = C13_Fetched[q.userId].val.posts \cup {q}
                 /\ q \notin C13_Fetched[q.userId].val.posts
                 /\ \A o \in C13_Fetched'[q.userId].val.posts : o.userId = q.userId
                 /\ \A id \in (1..MaxUsers) \ {q.userId} :
                       C13_Fetched'[id] = C13_Fetched[id]]_vars

C13_Witness ==
    /\ output.call = "post.create"
    /\ output.outcome.kind = "return"
    /\ output.input.userId = 2
    /\ C13_Fetched[2].val.posts = {output.outcome.value}
    /\ Cardinality(C13_Fetched[1].val.posts) = 1
\* C14. After every step of user create/update and post create/update no two
\* User rows share an email (or an id) and every Post's userId is the id of a
\* User row.  A createUser or updateUser whose (valid) input would duplicate
\* an email and a createPost or updatePost naming a user that does not exist
\* fail with a store error and leave both tables as they were.
C14_Refused ==
    LET in == output'.input
    IN  \/ /\ output'.call = "user.create" /\ CreateUserSchema(in)
           /\ \E u \in users : u.email = in.email
        \/ /\ output'.call = "user.update"
           /\ IsPositiveInt(in.id) /\ UpdateUserSchema(in.data) /\ in.data.email.some
           /\ \E u \in users : u.id = in.id
           /\ \E u \in users : u.id # in.id /\ u.email = in.data.email.val
        \/ /\ output'.call = "post.create" /\ CreatePostSchema(in)
           /\ ~(\E u \in users : u.id = in.userId)
        \/ /\ output'.call = "post.update"
           /\ IsPositiveInt(in.id) /\ UpdatePostSchema(in.data) /\ in.data.userId.some
           /\ \E q \in posts : q.id = in.id
           /\ ~(\E u \in users : u.id = in.data.userId.val)

C14_UniqueEmailAndForeignKey ==
    [][/\ \A u \in users', v \in users' : (u.email = v.email \/ u.id = v.id) => u = v
       /\ \A q \in posts' : \E u \in users' : u.id = q.userId
       /\ C14_Refused <=> (output'.outcome = Thrown("StoreError"))
       /\ C14_Refused => (users' = users /\ posts' = posts)]_vars

C14_Witness ==
    /\ output.call = "user.update"
    /\ output.outcome.kind = "throw"
    /\ output.outcome.error = "StoreError"
    /\ Cardinality(users) = 2
    /\ posts # {}
\* C15. listPosts returns at most limit posts, the most recently created
\* ones, createdAt descending, where limit is 50 when the input or its limit
\* is omitted; a limit above 100 or below 1 is rejected.  The list_posts tool
\* calls listPosts without input and so reports at most 50 posts.
C15_MostRecent(list, limit) ==
    /\ Len(list) = IF Cardinality(posts) < limit THEN Cardinality(posts) ELSE limit
    /\ Len(list) <= limit
    /\ \A i \in 1..Len(list) : \E q \in posts : q.id = list[i].id /\ q.createdAt = list[i].createdAt
    /\ \A i \in 1..Len(list), j \in 1..Len(list) :
          /\ i < j => list[i].createdAt >= list[j].createdAt
          /\ i # j => list[i].id # list[j].id
    /\ \A q \in posts :
          (\A i \in 1..Len(list) : list[i].id # q.id) =>
              \A i \in 1..Len(list) : q.createdAt <= list[i].createdAt

C15_LimitOf(inp) ==
    IF ~inp.some THEN 50
    ELSE IF ~inp.val.limit.some THEN 50
    ELSE inp.val.limit.val

C16_FailedSendIsShown ==
    /\ sendMessage = "error" =>
          /\ "failure indicator" \in Rendered
          /\ ~isLoading
          /\ ~TextareaDisabled
    /\ sendMessage \in {"idle", "success", "error"} => ~isLoading

\* C17: the context window a chat invocation loads has at most 10 rows, is
\* in chronological order, and consists of the most recent rows of the
\* Message Store at load time (it holds min(10, rows) distinct rows of the
\* store and no row left out is newer than a row in it); in sequential
\* execution its last element is the user row the invocation just
\* persisted, and with fewer than 10 rows in the store it is the whole store.
C17_Rows(w) == {w[i] : i \in 1..Len(w)}

C17_WindowIsRecentChronological ==
    [][(pc[Client] = "load" /\ pc'[Client] = "invoke") =>
          LET w == history'[Client]
          IN  /\ Len(w) <= 10
              /\ \A i, j \in 1..Len(w) : i < j => w[i].createdAt <= w[j].createdAt
              /\ Len(w) = Min(10, Cardinality(store))
              /\ Cardinality(C17_Rows(w)) = Len(w)
              /\ C17_Rows(w) \subseteq store
              /\ \A r \in store \ C17_Rows(w) :
                    \A q \in C17_Rows(w) : r.createdAt <= q.createdAt
              /\ Len(w) > 0
              /\ Last(w) = userMessage[Client]
              /\ Cardinality(store) < 10 => C17_Rows(w) = store]_vars

C17_Witness ==
    /\ pc[Client] = "invoke"
    /\ Cardinality(store) = 11
    /\ Len(history[Client]) = 10
    /\ history[Client][1].id = 2
    /\ Last(history[Client]) = userMessage[Client]

\* C18: in agent mode the conversation passed to the agent is the
\* chronological context window (at most 10 rows, each mapped to role user
\* or assistant, content unchanged) followed by one more user entry holding
\* the current message: it has 1 to 11 entries and its last entry is the
\* current message.
C18_Conversation == conversationMessages(history[Client], message[Client])

C18_ConversationIsWindowThenMessage ==
    (pc[Client] = "invoke" /\ mode[Client] = "agent") =>
        LET w == history[Client]
            c == C18_Conversation
        IN  /\ Len(w) <= 10
            /\ \A i, j \in 1..Len(w) : i < j => w[i].createdAt <= w[j].createdAt
            /\ Len(c) = Len(w) + 1
            /\ Len(c) >= 1 /\ Len(c) <= 11
            /\ \A i \in 1..Len(w) :
                  /\ c[i].role \in {"user", "assistant"}
                  /\ c[i].role = w[i].role
                  /\ c[i].content = w[i].content
            /\ Last(c) = [role |-> "user", content |-> message[Client]]

C18_Witness ==
    /\ pc[Client] = "invoke"
    /\ mode[Client] = "agent"
    /\ Len(C18_Conversation) = 11
    /\ C18_Conversation[1].role = "assistant"
    /\ C18_Conversation[11].content = Hello

\* C19: every entry of the toolCalls trace returned by agent-mode chat has
\* an empty output object and success = true, whatever the tools returned
\* and whether or not an invocation failed; toolName ("unknown" when the
\* call has no name) and input are those of the invocation, entry by entry.
RECURSIVE C19_Invocations(_)
C19_Invocations(msgs) ==
    IF msgs = << >> THEN << >>
    ELSE (IF Head(msgs).tool_calls.present THEN Head(msgs).tool_calls.calls ELSE << >>)
         \o C19_Invocations(Tail(msgs))

C19_TraceIsAlwaysSuccess ==
    (pc[Client] = "done" /\ mode[Client] = "agent") =>
        LET calls == C19_Invocations(result[Client].messages)
            trace == IF response[Client].toolCalls.some
                     THEN response[Client].toolCalls.val ELSE << >>
        IN  /\ Len(trace) = Len(calls)
            /\ \A i \in 1..Len(trace) :
                  /\ trace[i].output = EmptyObject
                  /\ trace[i].success = TRUE
                  /\ trace[i].input = calls[i].args
                  /\ trace[i].toolName =
                        IF calls[i].name \in {None, Some("")} THEN "unknown"
                        ELSE calls[i].name.val

C19_Witness ==
    /\ pc[Client] = "done"
    /\ mode[Client] = "agent"
    /\ \E i \in 1..Len(result[Client].messages) :
          /\ result[Client].messages[i].type = "tool"
          /\ result[Client].messages[i].status = "error"
    /\ response[Client].toolCalls.some
    /\ Len(response[Client].toolCalls.val) = 3
    /\ response[Client].toolCalls.val[2].toolName = "unknown"
    /\ response[Client].toolCalls.val[2].success

\* C20: in agent mode a sequential chat call passes the current message to
\* the agent twice: the last two entries of the conversation are both
\* user-role entries whose content is the current message.
C20_Conversation == conversationMessages(history[Client], message[Client])

C20_MessagePassedTwice ==
    (pc[Client] = "invoke" /\ mode[Client] = "agent") =>
        LET c == C20_Conversation
            n == Len(c)
        IN  /\ n >= 2
            /\ c[n] = [role |-> "user", content |-> message[Client]]
            /\ c[n - 1] = [role |-> "user", content |-> message[Client]]

C20_Witness ==
    /\ pc[Client] = "invoke"
    /\ mode[Client] = "agent"
    /\ message[Client] = Hello
    /\ Len(C20_Conversation) = 4
    /\ C20_Conversation[1].content # Hello
    /\ C20_Conversation[3] = C20_Conversation[4]

\* C21: in every interleaving of concurrent chat calls with no concurrent
\* clearMessages, each call inserts its assistant row strictly after its
\* own user row (larger id); in every state the assistant rows are no more
\* than the user rows (each assistant row has its own earlier user row);
\* and a call that succeeds adds exactly one user row and one assistant row
\* while no other step changes the store, so that once the calls made have
\* all succeeded the store holds as many user rows as assistant rows, one
\* of each per call.
C21_Users(s) == {r \in s : r.role = "user"}
C21_Assistants(s) == {r \in s : r.role = "assistant"}

\* invocations that have inserted their user row and not their assistant row
C21_Open == {p \in Procs : pc[p] \in {"load", "invoke", "insertAssistant", "failed"}}

C21_Balanced ==
    /\ Cardinality(C21_Assistants(store)) <= Cardinality(C21_Users(store))
    /\ Cardinality(C21_Users(store)) >=
          Cardinality(C21_Assistants(store)) + Cardinality(C21_Open)
    /\ \A a \in C21_Assistants(store) :
          Cardinality({u \in C21_Users(store) : u.id < a.id}) >=
             Cardinality({b \in C21_Assistants(store) : b.id <= a.id})
    /\ \A p \in Procs : pc[p] = "done" =>
          /\ response[p].userMessage \in C21_Users(store)
          /\ response[p].assistantMessage \in C21_Assistants(store)
          /\ response[p].assistantMessage.id > response[p].userMessage.id
    /\ (\A p \in Procs : pc[p] \in {"idle", "rejected", "done"})
       /\ Cardinality(C21_Users(store)) * 2 = nextId - 1
          => Cardinality(C21_Assistants(store)) = Cardinality(C21_Users(store))

C21_Step ==
    \/ \E p \in Procs :
          /\ pc[p] = "insertUser" /\ pc'[p] = "load"
          /\ userMessage'[p] \notin store
          /\ userMessage'[p].role = "user"
          /\ store' = store \cup {userMessage'[p]}
    \/ \E p \in Procs :
          /\ pc[p] = "insertAssistant" /\ pc'[p] = "done"
          /\ response'[p].assistantMessage \notin store
          /\ response'[p].assistantMessage.role = "assistant"
          /\ response'[p].assistantMessage.id > userMessage[p].id
          /\ response'[p].userMessage = userMessage[p]
          /\ userMessage[p] \in store
          /\ store' = store \cup {response'[p].assistantMessage}
    \/ store' = store

C21_AssistantAfterUser == [](C21_Balanced) /\ [][C21_Step]_vars

C21_Witness ==
    /\ \A p \in Procs : pc[p] = "done"
    /\ {response[p].userMessage.id : p \in Procs} = {1, 2}
    /\ {response[p].assistantMessage.id : p \in Procs} = {3, 4}
    /\ Cardinality(C21_Users(store)) = 2
    /\ Cardinality(C21_Assistants(store)) = 2

\* C22: in every interleaving of concurrent chat calls, the context window
\* a chat call loaded contains the user row this call persisted.
C22_OwnRowInWindow ==
    \A p \in Procs : pc[p] = "invoke" =>
        \E i \in 1..Len(history[p]) : history[p][i] = userMessage[p]

\* C23: if clearMessages executes between a chat call's insert of the user
\* row and its insert of the assistant row, the call still completes
\* successfully and returns both rows, and the Message Store then holds the
\* assistant row without the user row it answers; the chat page allows
\* this interleaving: its Clear Chat button is enabled while a send is in
\* flight.
C23_Cleared == userMessage[Client] \notin store

C23_ClearAllowedWhileSending ==
    /\ isLoading => ~ClearChatDisabled
    /\ (pc[Client] = "load" /\ C23_Cleared) => ENABLED LoadHistory(Client)
    /\ (pc[Client] = "insertAssistant" /\ C23_Cleared) => ENABLED InsertAssistant(Client)

C23_AnswerWithoutQuestion ==
    (pc[Client] = "insertAssistant" /\ C23_Cleared /\ pc'[Client] = "done") =>
        /\ response'[Client].status = "ok"
        /\ response'[Client].userMessage = userMessage[Client]
        /\ response'[Client].userMessage.role = "user"
        /\ response'[Client].assistantMessage.role = "assistant"
        /\ response'[Client].assistantMessage.id > userMessage[Client].id
        /\ store' = store \cup {response'[Client].assistantMessage}
        /\ userMessage[Client] \notin store'

C23_ClearDuringChat == [](C23_ClearAllowedWhileSending) /\ [][C23_AnswerWithoutQuestion]_vars

C23_Witness ==
    /\ sendMessage = "pending"
    /\ isLoading
    /\ pc[Client] = "done"
    /\ response[Client].status = "ok"
    /\ response[Client].userMessage.id = 1
    /\ store = {response[Client].assistantMessage}

\* C24: a chat page has at most one send mutation in flight at any time: a
\* submit is ignored while isLoading is true or when the trimmed input is
\* empty, isLoading is true from the start of the mutation on, and the
\* message sent is the trimmed input.
C24_OneSend ==
    /\ sends \in {0, 1}
    /\ sends = 1 => isLoading
    /\ sends = 1 <=> sendMessage = "pending"
    /\ pc[Client] # "idle" => sends = 1 /\ message[Client] = ToStr(Trim(input))

C24_Submit ==
    /\ (HandleSubmit /\ (isLoading \/ ~Truthy(ToStr(Trim(input))))) => UNCHANGED pageVars
    /\ sends' > sends =>
          /\ ~isLoading /\ isLoading'
          /\ sends' = 1
          /\ Truthy(ToStr(Trim(input)))
          /\ input' = input
    /\ (pc[Client] = "idle" /\ pc'[Client] # "idle") =>
          /\ sends = 1
          /\ message'[Client] = ToStr(Trim(input))
          /\ ~Blank(Head(Trim(input))) /\ ~Blank(Last(Trim(input)))

C24_OneSendInFlight == [](C24_OneSend) /\ [][C24_Submit]_vars

C24_Witness ==
    /\ sends = 1
    /\ isLoading
    /\ input = <<Spaces(1), Hello, Spaces(1)>>
    /\ pc[Client] = "insertUser"
    /\ message[Client] = Hello

====
